---- MODULE Spec2Model ----
(***************************************************************************)
(* A model of Navfleet_2_OVD.py: the NavFleet -> OVD transformation        *)
(* pipeline.  Each pure function of the script is an operator computed the *)
(* way the code computes it; each specification below draws the inputs of  *)
(* one function (or of the table transformation) from bounded sets in its  *)
(* initial states and applies the function in one action.                  *)
(*                                                                         *)
(* Text is a sequence of one-character strings.  A value that may be       *)
(* absent is a sequence of length 0 or 1: NaN (pandas NaN / NaT) and None  *)
(* (Python None) are the empty one, Some(v) holds the value v.  A float of *)
(* the script is an integer count of a fixed unit (1/Scale degree, 1/10    *)
(* minute, 1 ton).                                                         *)
(***************************************************************************)
EXTENDS Integers, Sequences, FiniteSets, TLC

VARIABLES pc, decimal, is_latitude, dms, report_to, timezone, utc,
          event_text, event, navfleet_data, order, transformed,
          output_data, reference_data

vars == <<pc, decimal, is_latitude, dms, report_to, timezone, utc,
          event_text, event, navfleet_data, order, transformed,
          output_data, reference_data>>

NaN == <<>>
None == <<>>
Some(v) == <<v>>
Val(x) == x[1]
\* pd.isna
isna(x) == x = <<>>
\* The value of a variable the specification at hand does not use.
Idle == "idle"

\* ------------------------------------------------------------------ bounds
\* Units per degree of a decimal coordinate (4 decimal places).
Scale == 10000
\* Largest whole degree of the coordinates drawn.
MaxDeg == 11
\* Most words of an event text.
MaxTokens == 3
\* Largest hour offset of a TVA/GMT descriptor.
MaxOffset == 12
\* Most rows of a table given to transform_navfleet_data.
MaxRows == 3

\* --------------------------------------------------------------- sequences
\* The sequence Op(1), ..., Op(n), and the function c |-> Op(c) on the set S
\* ([i \in 1..n |-> Op(i)] and [c \in S |-> Op(c)], each value computed once).
RECURSIVE SeqOf(_, _)
SeqOf(Op(_), n) == IF n = 0 THEN <<>> ELSE Append(SeqOf(Op, n - 1), Op(n))
RECURSIVE FunOf(_, _)
FunOf(Op(_), S) ==
  IF S = {} THEN <<>>
  ELSE LET a == CHOOSE x \in S : TRUE IN (a :> Op(a)) @@ FunOf(Op, S \ {a})

\* -------------------------------------------------------------------- text
UpperChars == <<"A","B","C","D","E","F","G","H","I","J","K","L","M",
                "N","O","P","Q","R","S","T","U","V","W","X","Y","Z">>
LowerChars == <<"a","b","c","d","e","f","g","h","i","j","k","l","m",
                "n","o","p","q","r","s","t","u","v","w","x","y","z">>
DigitChars == <<"0","1","2","3","4","5","6","7","8","9">>

IsSpace(c) == c = " "
IsDigit(c) == \E i \in 1..10 : DigitChars[i] = c
DigitValue(c) == (CHOOSE i \in 1..10 : DigitChars[i] = c) - 1

\* str.lower / str.upper, one character.
UpperToLower == [c \in {UpperChars[i] : i \in 1..26} |->
                   LowerChars[CHOOSE i \in 1..26 : UpperChars[i] = c]]
LowerToUpper == [c \in {LowerChars[i] : i \in 1..26} |->
                   UpperChars[CHOOSE i \in 1..26 : LowerChars[i] = c]]
LowerChar(c) == IF c \in DOMAIN UpperToLower THEN UpperToLower[c] ELSE c
UpperChar(c) == IF c \in DOMAIN LowerToUpper THEN LowerToUpper[c] ELSE c
Lower(s) == SeqOf(LAMBDA i : LowerChar(s[i]), Len(s))
Upper(s) == SeqOf(LAMBDA i : UpperChar(s[i]), Len(s))

\* str.strip(): leading and trailing white space removed.
Strip(s) ==
  IF \A i \in 1..Len(s) : IsSpace(s[i]) THEN <<>>
  ELSE LET a == CHOOSE i \in 1..Len(s) :
                  ~IsSpace(s[i]) /\ \A j \in 1..(i-1) : IsSpace(s[j])
           b == CHOOSE i \in 1..Len(s) :
                  ~IsSpace(s[i]) /\ \A j \in (i+1)..Len(s) : IsSpace(s[j])
       IN SubSeq(s, a, b)

\* Python's  kw in s : kw occurs in s as a contiguous substring.
Contains(s, kw) ==
  \E i \in 1..(Len(s) - Len(kw) + 1) : SubSeq(s, i, i + Len(kw) - 1) = kw

\* The concatenation of a sequence of texts.
RECURSIVE Concat(_)
Concat(ss) == IF ss = <<>> THEN <<>> ELSE Head(ss) \o Concat(Tail(ss))

Abs(x) == IF x < 0 THEN -x ELSE x

\* ------------------------------------------------- convert_decimal_to_dms
\* The hemisphere letter (the conditional expression of line 44).
DirectionStrict(d, lat) ==
  IF d > 0 /\ lat THEN "N" ELSE IF lat THEN "S" ELSE IF d > 0 THEN "E" ELSE "W"
Direction(d, lat) ==
  IF d >= 0 /\ lat THEN "N" ELSE IF lat THEN "S" ELSE IF d >= 0 THEN "E" ELSE "W"

\* round(x, 1) of a float x given as the fraction num/Scale of a tenth: the
\* nearest tenth.  Exactly half way the binary value of the float decides, so
\* both neighbours are outcomes.
RoundTenths(num) ==
  LET lo == num \div Scale
      r  == num % Scale
  IN  IF 2 * r < Scale THEN {lo}
      ELSE IF 2 * r > Scale THEN {lo + 1}
      ELSE {lo, lo + 1}

\* The results of convert_decimal_to_dms(d, lat): degrees, minutes (in
\* tenths of a minute), direction.
convert_decimal_to_dms(d, lat) ==
  IF isna(d) THEN {<<None, None, None>>}
  ELSE LET direction == Direction(Val(d), lat)
           a == Abs(Val(d))
           degrees == a \div Scale
       IN  { <<Some(degrees), Some(m), Some(direction)>> :
               m \in RoundTenths((a - degrees * Scale) * 600) }

Decimals ==
  {NaN} \cup { Some(n) : n \in (-(MaxDeg + 1) * Scale + 1) .. ((MaxDeg + 1) * Scale - 1) }

InitDms ==
  /\ pc = "dms"
  /\ decimal \in Decimals
  /\ is_latitude \in BOOLEAN
  /\ dms = Idle
  /\ report_to = Idle /\ timezone = Idle /\ utc = Idle
  /\ event_text = Idle /\ event = Idle
  /\ navfleet_data = Idle /\ order = Idle /\ transformed = Idle
  /\ output_data = Idle /\ reference_data = Idle

ConvertDecimal ==
  /\ pc = "dms"
  /\ dms' \in convert_decimal_to_dms(decimal, is_latitude)
  /\ pc' = "done"
  /\ UNCHANGED <<decimal, is_latitude, report_to, timezone, utc, event_text,
                 event, navfleet_data, order, transformed, output_data,
                 reference_data>>

NextDms == ConvertDecimal

SpecDms == InitDms /\ [][NextDms]_vars

\* C8: for a non-absent decimal the direction follows sign and axis, the
\* degrees are the integer part of |d|, and the minutes are (|d| - degrees)*60
\* rounded to one decimal place, so degrees + minutes/60 is |d| within 0.05
\* minute; an absent decimal gives three absent results.
C8_DmsCorrect ==
  pc = "done" =>
    IF decimal = NaN THEN dms = <<None, None, None>>
    ELSE LET d == Val(decimal)
             deg == Val(dms[1])
             min == Val(dms[2])
         IN /\ dms[1] # None /\ dms[2] # None
            /\ dms[3] = Some(IF is_latitude THEN (IF d >= 0 THEN "N" ELSE "S")
                                            ELSE (IF d >= 0 THEN "E" ELSE "W"))
            /\ deg * Scale <= Abs(d)
            /\ Abs(d) < (deg + 1) * Scale
            \* |minutes - (|d| - degrees)*60| <= 0.05 minute
            /\ 2 * Abs(min * Scale - (Abs(d) - deg * Scale) * 600) <= Scale

\* Longitude -1.5 gives 1 degree 30.0 minutes W.
C8_Witness ==
  /\ pc = "done" /\ decimal # NaN /\ ~is_latitude
  /\ 2 * Val(decimal) = -3 * Scale
  /\ dms = <<Some(1), Some(300), Some("W")>>

\* C10: for a non-absent decimal the minutes satisfy 0 <= minutes < 60.
C10_MinutesBelow60 ==
  (pc = "done" /\ decimal # NaN) => (0 <= Val(dms[2]) /\ Val(dms[2]) < 600)

\* ----------------------------------------------------------- process_event
Sea == <<"S","e","a">>
Port == <<"P","o","r","t">>
Arrival == <<"A","r","r","i","v","a","l">>
Departure == <<"D","e","p","a","r","t","u","r","e">>
SeaPassageLabel ==
  <<"N","o","o","n"," ","(","P","o","s","i","t","i","o","n",")"," ","-"," ",
    "S","e","a"," ","p","a","s","s","a","g","e">>
PortLabel ==
  <<"N","o","o","n"," ","(","P","o","s","i","t","i","o","n",")"," ",
    "P","o","r","t">>

\* The rules of process_event after the isna test, on the trimmed text.
EventRulesPortLast(text) ==
  IF Contains(text, Sea) THEN SeaPassageLabel
  ELSE IF Contains(text, Arrival) THEN Arrival
  ELSE IF Contains(text, Departure) THEN Departure
  ELSE IF Contains(text, Port) THEN PortLabel
  ELSE text
EventRules(text) ==
  IF Contains(text, Sea) THEN SeaPassageLabel
  ELSE IF Contains(text, Port) THEN PortLabel
  ELSE IF Contains(text, Arrival) THEN Arrival
  ELSE IF Contains(text, Departure) THEN Departure
  ELSE text

process_event(x) ==
  IF isna(x) THEN x ELSE Some(EventRules(Strip(Val(x))))

\* The words event texts are made of: the four keywords, a word none of the
\* rules knows, a keyword in lower case, and a blank.
EventTokens ==
  {Sea, Port, Arrival, Departure, <<"A","t">>, <<"s","e","a">>, <<" ">>}
EventTexts ==
  { Concat(ts) : ts \in UNION { [1..n -> EventTokens] : n \in 0..MaxTokens } }

InitEvent ==
  /\ pc = "event"
  /\ event_text \in {NaN} \cup { Some(t) : t \in EventTexts }
  /\ event = Idle
  /\ decimal = Idle /\ is_latitude = Idle /\ dms = Idle
  /\ report_to = Idle /\ timezone = Idle /\ utc = Idle
  /\ navfleet_data = Idle /\ order = Idle /\ transformed = Idle
  /\ output_data = Idle /\ reference_data = Idle

ProcessEvent ==
  /\ pc = "event"
  /\ event' = process_event(event_text)
  /\ pc' = "done"
  /\ UNCHANGED <<decimal, is_latitude, dms, report_to, timezone, utc,
                 event_text, navfleet_data, order, transformed, output_data,
                 reference_data>>

NextEvent == ProcessEvent

SpecEvent == InitEvent /\ [][NextEvent]_vars

\* C7: an absent input is returned unchanged; otherwise the first rule that
\* matches, in the order Sea, Port, Arrival, Departure, gives the label, and a
\* text with none of the keywords is returned trimmed; the result is one of
\* the four labels or the trimmed input.
C7_EventFirstMatch ==
  pc = "done" =>
    IF event_text = NaN THEN event = NaN
    ELSE LET t == Val(event_text)
             hasSea == Contains(t, Sea)
             hasPort == Contains(t, Port)
             hasArr == Contains(t, Arrival)
             hasDep == Contains(t, Departure)
         IN /\ event # NaN
            /\ hasSea => Val(event) = SeaPassageLabel
            /\ (~hasSea /\ hasPort) => Val(event) = PortLabel
            /\ (~hasSea /\ ~hasPort /\ hasArr) => Val(event) = Arrival
            /\ (~hasSea /\ ~hasPort /\ ~hasArr /\ hasDep) => Val(event) = Departure
            /\ (~hasSea /\ ~hasPort /\ ~hasArr /\ ~hasDep) => Val(event) = Strip(t)
            /\ Val(event) \in {SeaPassageLabel, PortLabel, Arrival, Departure, Strip(t)}

\* A text with both Port and Departure gets the Port label.
C7_Witness ==
  /\ pc = "done" /\ event_text # NaN
  /\ Contains(Val(event_text), Port) /\ Contains(Val(event_text), Departure)
  /\ ~Contains(Val(event_text), Sea)
  /\ event = Some(PortLabel)

\* ----------------------------------------------------------- adjust_to_utc
\* The parts of s between the occurrences of the character c (str.split).
RECURSIVE Split(_, _)
Split(s, c) ==
  IF \A i \in 1..Len(s) : s[i] # c THEN <<s>>
  ELSE LET k == CHOOSE i \in 1..Len(s) : s[i] = c /\ \A j \in 1..(i-1) : s[j] # c
       IN <<SubSeq(s, 1, k - 1)>> \o Split(SubSeq(s, k + 1, Len(s)), c)

IsNumber(s) == Len(s) >= 1 /\ \A i \in 1..Len(s) : IsDigit(s[i])
\* int() of a text of digits.
RECURSIVE ToInt(_)
ToInt(s) ==
  IF s = <<>> THEN 0 ELSE 10 * ToInt(SubSeq(s, 1, Len(s) - 1)) + DigitValue(s[Len(s)])

\* The calendar of datetime: leap years, month lengths, the proleptic ordinal.
IsLeap(y) == (y % 4 = 0) /\ ((y % 100 # 0) \/ (y % 400 = 0))
DaysInMonth(y, m) ==
  IF m = 2 THEN (IF IsLeap(y) THEN 29 ELSE 28)
  ELSE IF m \in {4, 6, 9, 11} THEN 30 ELSE 31
DaysBeforeYear(y) ==
  (y - 1) * 365 + ((y - 1) \div 4) - ((y - 1) \div 100) + ((y - 1) \div 400)
RECURSIVE DaysBeforeMonth(_, _)
DaysBeforeMonth(y, m) ==
  IF m = 1 THEN 0 ELSE DaysBeforeMonth(y, m - 1) + DaysInMonth(y, m - 1)
ToOrdinal(y, m, d) == DaysBeforeYear(y) + DaysBeforeMonth(y, m) + d
\* The date of an ordinal (date.fromordinal): the year by the 400-, 100-, 4-
\* and 1-year cycles, then the month that holds the day of the year.
FromOrdinal(ordinal) ==
  LET n0 == ordinal - 1
      n400 == n0 \div 146097
      r400 == n0 % 146097
      n100 == r400 \div 36524
      r100 == r400 % 36524
      n4 == r100 \div 1461
      r4 == r100 % 1461
      n1 == r4 \div 365
      y == n400 * 400 + 1 + n100 * 100 + n4 * 4 + n1
  IN IF n1 = 4 \/ n100 = 4 THEN [year |-> y - 1, month |-> 12, day |-> 31]
     ELSE LET r == ordinal - DaysBeforeYear(y)
              m == CHOOSE mm \in 1..12 :
                     /\ DaysBeforeMonth(y, mm) < r
                     /\ r <= DaysBeforeMonth(y, mm) + DaysInMonth(y, mm)
          IN [year |-> y, month |-> m, day |-> r - DaysBeforeMonth(y, m)]

\* A datetime from the fields strptime read, NaT (ValueError) when a field is
\* out of range.
MakeDatetime(y, m, d, H, M) ==
  IF /\ y >= 1 /\ m \in 1..12 /\ d >= 1 /\ d <= DaysInMonth(y, m)
     /\ H \in 0..23 /\ M \in 0..59
  THEN Some([year |-> y, month |-> m, day |-> d, hour |-> H, minute |-> M])
  ELSE NaN

\* datetime.strptime(text, fmt) for the three formats of line 57; NaT stands
\* for the ValueError.  %d %m %H %M read one or two digits, %Y four.
Short(s) == IsNumber(s) /\ Len(s) <= 2
Strptime(text, fmt) ==
  LET halves == Split(text, " ")
      sep == IF fmt = "Y-m-d" THEN "-" ELSE "/"
      dp == Split(halves[1], sep)
      tp == Split(halves[2], ":")
      yi == IF fmt = "Y-m-d" THEN 1 ELSE 3
      mi == IF fmt = "d/m/Y" THEN 2 ELSE IF fmt = "m/d/Y" THEN 1 ELSE 2
      di == IF fmt = "d/m/Y" THEN 1 ELSE IF fmt = "m/d/Y" THEN 2 ELSE 3
  IN IF /\ Len(halves) = 2 /\ Len(dp) = 3 /\ Len(tp) = 2
        /\ IsNumber(dp[yi]) /\ Len(dp[yi]) = 4
        /\ Short(dp[mi]) /\ Short(dp[di]) /\ Short(tp[1]) /\ Short(tp[2])
     THEN MakeDatetime(ToInt(dp[yi]), ToInt(dp[mi]), ToInt(dp[di]),
                       ToInt(tp[1]), ToInt(tp[2]))
     ELSE NaN

\* pd.to_datetime(report_to, errors='coerce', dayfirst=True), reached only by a
\* value none of the three formats reads.  The values drawn here that get this
\* far (NaN, a text that is no date, a date with a field out of range) are NaT
\* to it as well.
to_datetime_dayfirst(x) == NaN

\* Lines 57-69: the first format that reads str(report_to), else the fallback.
ParseReportTo(x) ==
  LET text == IF isna(x) THEN <<"n","a","n">> ELSE Val(x)
      a == Strptime(text, "d/m/Y")
      b == Strptime(text, "m/d/Y")
      c == Strptime(text, "Y-m-d")
  IN IF ~isna(a) THEN a ELSE IF ~isna(b) THEN b ELSE IF ~isna(c) THEN c
     ELSE to_datetime_dayfirst(x)

TvaGmt == <<"T","V","A","/","G","M","T">>
Utc == <<"U","T","C">>

\* re.search(r'TVA/GMT([+-]\d+)', tz): the group of the leftmost match, NaN
\* when there is none.
MatchAt(tz, i) ==
  /\ i + 8 <= Len(tz)
  /\ SubSeq(tz, i, i + 6) = TvaGmt
  /\ tz[i + 7] \in {"+", "-"}
  /\ IsDigit(tz[i + 8])
SearchOffset(tz) ==
  IF \E i \in 1..Len(tz) : MatchAt(tz, i)
  THEN LET i == CHOOSE k \in 1..Len(tz) :
                  MatchAt(tz, k) /\ \A j \in 1..(k-1) : ~MatchAt(tz, j)
           e == CHOOSE k \in (i + 8)..Len(tz) :
                  /\ \A j \in (i + 8)..k : IsDigit(tz[j])
                  /\ (k = Len(tz) \/ ~IsDigit(tz[k + 1]))
       IN Some(SubSeq(tz, i + 7, e))
  ELSE NaN
\* int() of a signed text of digits.
SignedToInt(g) ==
  IF g[1] = "-" THEN -ToInt(Tail(g)) ELSE ToInt(Tail(g))

\* dt - pd.to_timedelta(offset, unit='h')
Minutes(dt) ==
  (ToOrdinal(dt.year, dt.month, dt.day) * 24 + dt.hour) * 60 + dt.minute
FromMinutes(t) ==
  LET date == FromOrdinal(t \div 1440)
  IN [year |-> date.year, month |-> date.month, day |-> date.day,
      hour |-> (t % 1440) \div 60, minute |-> t % 60]
AddHours(dt, offset) == FromMinutes(Minutes(dt) + 60 * offset)
SubtractHours(dt, offset) == FromMinutes(Minutes(dt) - 60 * offset)

TimeOf(dt) == Some([hour |-> dt.hour, minute |-> dt.minute])
DateOf(dt) == Some([year |-> dt.year, month |-> dt.month, day |-> dt.day])

\* adjust_to_utc(report_to, timezone): <<time, date>>.
adjust_to_utc(rt, tz) ==
  LET report_to_dt == ParseReportTo(rt)
  IN IF isna(report_to_dt) THEN <<None, None>>
     \* not timezone: the empty text
     ELSE IF tz = Some(<<>>) THEN <<None, None>>
     \* a NaN has no strip(): the AttributeError is caught at line 88
     ELSE IF isna(tz) THEN <<None, None>>
     ELSE IF Upper(Strip(Val(tz))) = Utc
       THEN <<TimeOf(Val(report_to_dt)), DateOf(Val(report_to_dt))>>
     ELSE LET match == SearchOffset(Val(tz))
          IN IF ~isna(match)
             THEN LET adjusted_time ==
                        SubtractHours(Val(report_to_dt), SignedToInt(Val(match)))
                  IN <<TimeOf(adjusted_time), DateOf(adjusted_time)>>
             ELSE <<None, None>>

\* Texts of numbers (str.format): n with at least w digits.
RECURSIVE Digits(_, _)
Digits(n, w) ==
  IF n < 10 /\ w <= 1 THEN <<DigitChars[n + 1]>>
  ELSE Digits(n \div 10, w - 1) \o <<DigitChars[(n % 10) + 1]>>
SignedText(sign, n) == sign \o Digits(n, 1)

\* The timestamps drawn: day/month/year and ISO texts over a few field values
\* (among them days no month has and a month no year has), a text that is no
\* date, the empty text and NaN.
FieldA == {1, 13, 29, 31}
FieldB == {1, 2, 3, 12, 13}
Years == {2023, 2024}
Hours == {0, 2, 23}
Mins == {0, 30}
SlashText(a, b, y, H, M) ==
  Digits(a, 2) \o <<"/">> \o Digits(b, 2) \o <<"/">> \o Digits(y, 4)
    \o <<" ">> \o Digits(H, 2) \o <<":">> \o Digits(M, 2)
IsoText(y, m, d, H, M) ==
  Digits(y, 4) \o <<"-">> \o Digits(m, 2) \o <<"-">> \o Digits(d, 2)
    \o <<" ">> \o Digits(H, 2) \o <<":">> \o Digits(M, 2)
ReportTos ==
  {NaN, Some(<<>>), Some(<<"n","o","o","n">>)}
  \cup { Some(SlashText(a, b, y, H, M)) :
           a \in FieldA, b \in FieldB, y \in Years, H \in Hours, M \in Mins }
  \cup { Some(IsoText(y, b, a, H, M)) :
           a \in FieldA, b \in FieldB, y \in Years, H \in Hours, M \in Mins }

\* The descriptors drawn: UTC in three spellings, TVA/GMT with a sign (or
\* none) and an offset, the prefix in lower case, two zones the code does not
\* know, the empty text, each with or without blanks around it, and NaN.
Pads == {<<>>, <<" ">>}
Signs == {<<"+">>, <<"-">>, <<>>}
ZoneBodies ==
  {Utc, <<"u","t","c">>, <<"U","t","c">>, <<>>, <<"E","S","T">>,
   <<"G","M","T","+","3">>, <<"t","v","a","/","g","m","t","+","3">>}
  \cup { TvaGmt \o SignedText(sg, n) : sg \in Signs, n \in 0..MaxOffset }
Timezones ==
  {NaN} \cup { Some(pre \o b \o post) : pre \in Pads, b \in ZoneBodies, post \in Pads }

InitUtc ==
  /\ pc = "utc"
  /\ report_to \in ReportTos
  /\ timezone \in Timezones
  /\ utc = Idle
  /\ decimal = Idle /\ is_latitude = Idle /\ dms = Idle
  /\ event_text = Idle /\ event = Idle
  /\ navfleet_data = Idle /\ order = Idle /\ transformed = Idle
  /\ output_data = Idle /\ reference_data = Idle

AdjustToUtc ==
  /\ pc = "utc"
  /\ utc' = adjust_to_utc(report_to, timezone)
  /\ pc' = "done"
  /\ UNCHANGED <<decimal, is_latitude, dms, report_to, timezone, event_text,
                 event, navfleet_data, order, transformed, output_data,
                 reference_data>>

NextUtc == AdjustToUtc

SpecUtc == InitUtc /\ [][NextUtc]_vars

\* The descriptors of the form TVA/GMT<sign><N>, stated by writing them.
HasOffsetForm(tz, n) ==
  \E pre \in Pads, post \in Pads, sg \in {<<"+">>, <<"-">>} :
    /\ n = (IF sg = <<"-">> THEN -Abs(n) ELSE Abs(n))
    /\ tz = pre \o TvaGmt \o SignedText(sg, Abs(n)) \o post
WellFormedDateTime(time, date) ==
  /\ time.hour \in 0..23 /\ time.minute \in 0..59
  /\ date.month \in 1..12
  /\ date.day \in 1..DaysInMonth(date.year, date.month)
MinutesOf(time, date) ==
  (ToOrdinal(date.year, date.month, date.day) * 24 + time.hour) * 60 + time.minute

ME == "ME_Consumption_"
AE == "AE_Consumption_"
Boiler == "Boiler_Consumption_"
Col(name) == <<"", name>>
FuelType1 == Col("Fuel Type 1")
FuelType2 == Col("Fuel Type 2")
FuelType3 == Col("Fuel Type 3")
FuelType1ME == Col("Fuel Type 1 ME (MT)")
FuelType1AE == Col("Fuel Type 1 AE (MT)")
FuelType1Boiler == Col("Fuel Type 1 Aux. Boiler (MT)")
FuelType2Total == Col("Fuel Type 2 Total (MT)")
FuelType3Total == Col("Fuel Type 3 Total (MT)")

Hfo == <<"h","f","o">>
Vlsfo2020 == <<"v","l","s","f","o","2","0","2","0">>
Lfo == <<"l","f","o">>
Mgo == <<"m","g","o">>
Ulsmgo2020 == <<"u","l","s","m","g","o","2","0","2","0">>
Mdo == <<"m","d","o">>
Lng == <<"l","n","g">>
Lpgp == <<"l","p","g","p">>
Lpgb == <<"l","p","g","b">>
Methanol == <<"m">>
Ethanol == <<"e">>

fuel_type_to_ME_column ==
  (Hfo :> <<ME, "HFO">>) @@ (Vlsfo2020 :> <<ME, "HFO">>) @@ (Lfo :> <<ME, "LFO">>)
  @@ (Mgo :> <<ME, "MGO">>) @@ (Ulsmgo2020 :> <<ME, "MGO">>)
  @@ (Mdo :> <<ME, "MDO">>) @@ (Lng :> <<ME, "LNG">>) @@ (Lpgp :> <<ME, "LPGP">>)
  @@ (Lpgb :> <<ME, "LPGB">>) @@ (Methanol :> <<ME, "M">>) @@ (Ethanol :> <<ME, "E">>)
fuel_type_to_AE_column ==
  (Hfo :> <<AE, "HFO">>) @@ (Vlsfo2020 :> <<AE, "HFO">>) @@ (Lfo :> <<AE, "LFO">>)
  @@ (Mgo :> <<AE, "MGO">>) @@ (Ulsmgo2020 :> <<ME, "MGO">>)
  @@ (Mdo :> <<AE, "MDO">>) @@ (Lng :> <<AE, "LNG">>) @@ (Lpgp :> <<AE, "LPGP">>)
  @@ (Lpgb :> <<AE, "LPGB">>) @@ (Methanol :> <<AE, "M">>) @@ (Ethanol :> <<AE, "E">>)
fuel_type_to_Boiler_column ==
  (Hfo :> <<Boiler, "HFO">>) @@ (Vlsfo2020 :> <<Boiler, "HFO">>)
  @@ (Lfo :> <<Boiler, "LFO">>)
  @@ (Mgo :> <<Boiler, "MGO">>) @@ (Ulsmgo2020 :> <<ME, "MGOO">>)
  @@ (Mdo :> <<Boiler, "MDO">>) @@ (Lng :> <<Boiler, "LNG">>)
  @@ (Lpgp :> <<Boiler, "LPGP">>)
  @@ (Lpgb :> <<Boiler, "LPGB">>) @@ (Methanol :> <<Boiler, "M">>)
  @@ (Ethanol :> <<Boiler, "E">>)

Values(mapping) == { mapping[f] : f \in DOMAIN mapping }
\* The columns the three loops of lines 145-161 visit.
ConsumptionColumns ==
  Values(fuel_type_to_ME_column) \cup Values(fuel_type_to_AE_column)
    \cup Values(fuel_type_to_Boiler_column)
NRows(t) == Len(t[CHOOSE c \in DOMAIN t : TRUE])

\* Lines 145-161: a consumption column the table lacks is created as 0.0 in
\* every row; one it has keeps its values (astype(float)).
InitialValue(t, c, i) == IF c \in DOMAIN t THEN t[c][i] ELSE 0

\* astype(str).fillna(""): a NaN becomes the text nan.
AsStr(v) == IF isna(v) THEN Some(<<"n","a","n">>) ELSE v

\* Whether a block of lines 163-196 runs: the table has both its columns.
Runs(t, ftcol, qcol) == ftcol \in DOMAIN t /\ qcol \in DOMAIN t

\* The column each row's fuel type selects in a block of lines 163-196: the
\* fuel type as text, trimmed and lower-cased, is compared with each key of
\* the mapping (the mask), and a row whose fuel type is a key belongs to the
\* column of that key; a row whose fuel type is no key belongs to none.
Targets(t, ftcol, mapping) ==
  SeqOf(LAMBDA i :
          IF ftcol \in DOMAIN t
          THEN LET fuel_type == Lower(Strip(Val(AsStr(t[ftcol][i]))))
               IN IF fuel_type \in DOMAIN mapping THEN Some(mapping[fuel_type]) ELSE None
          ELSE None,
        NRows(t))

\* What one of the five blocks adds to column c in row i: the quantity, a NaN
\* as 0, in the rows of the mask of c.
ContributionNoMask(t, targets, qcol, c, i) ==
  IF qcol \in DOMAIN t /\ targets[i] # None
  THEN (IF isna(t[qcol][i]) THEN 0 ELSE Val(t[qcol][i]))
  ELSE 0
Contribution(t, targets, qcol, c, i) ==
  IF qcol \in DOMAIN t /\ targets[i] = Some(c)
  THEN (IF isna(t[qcol][i]) THEN 0 ELSE Val(t[qcol][i]))
  ELSE 0

\* The table after map_fuel_type_consumption.  No block reads a column
\* another block writes, so each cell is its initial value plus what the five
\* blocks add, in the order of the code.  The three blocks of slot 1 all
\* iterate fuel_type_to_ME_column (lines 166, 173, 180).
map_fuel_type_consumption(t) ==
  LET asText == { c \in {FuelType1} :
                    \E q \in {FuelType1ME, FuelType1AE, FuelType1Boiler} : Runs(t, c, q) }
                \cup { c \in {FuelType2} : Runs(t, c, FuelType2Total) }
                \cup { c \in {FuelType3} : Runs(t, c, FuelType3Total) }
      slot1 == Targets(t, FuelType1, fuel_type_to_ME_column)
      slot2 == Targets(t, FuelType2, fuel_type_to_AE_column)
      slot3 == Targets(t, FuelType3, fuel_type_to_Boiler_column)
      cell(c, i) ==
        InitialValue(t, c, i)
        + Contribution(t, slot1, FuelType1ME, c, i)
        + Contribution(t, slot1, FuelType1AE, c, i)
        + Contribution(t, slot1, FuelType1Boiler, c, i)
        + Contribution(t, slot2, FuelType2Total, c, i)
        + Contribution(t, slot3, FuelType3Total, c, i)
  IN FunOf(LAMBDA c :
             IF c \in asText THEN SeqOf(LAMBDA i : AsStr(t[c][i]), NRows(t))
             ELSE IF c \in ConsumptionColumns
               THEN SeqOf(LAMBDA i : cell(c, i), NRows(t))
             ELSE t[c],
           (DOMAIN t) \cup ConsumptionColumns)

\* The tables drawn: one row; each fuel slot holds a fuel type of the
\* vocabulary (slot 1: any, or one in capitals with blanks around it, or a
\* text outside the vocabulary; slots 2 and 3: the two base types with a
\* variant and their variants) or NaN; each quantity is NaN or a power of two of its own,
\* so that a sum shows which quantities it holds.  The table may lack a
\* quantity column or a whole slot, and may already hold a consumption column.
Slot1Fuels ==
  { Some(f) : f \in DOMAIN fuel_type_to_ME_column }
  \cup {Some(<<" ","M","G","O"," ">>), Some(<<"x","y","z">>), NaN}
SlotFuels ==
  { Some(f) : f \in {Hfo, Vlsfo2020, Mgo, Ulsmgo2020} } \cup {NaN}
Q1ME == 1
Q1AE == 2
Q1Boiler == 4
Q2Total == 8
Q3Total == 16
QPre == 32
\* The values of column col of a table lacking the columns miss.
Qty(col, q, miss) == IF col \in miss THEN {NaN} ELSE {NaN, Some(q)}
Fuel(col, fuels, miss) == IF col \in miss THEN {NaN} ELSE fuels
Without(t, cols) == FunOf(LAMBDA c : t[c], (DOMAIN t) \ cols)
With(t, col, v) == (col :> SeqOf(LAMBDA i : v, NRows(t))) @@ t
Missing == { {}, {FuelType1AE}, {FuelType3, FuelType3Total} }

InitFuel ==
  /\ pc = "fuel"
  /\ \E miss \in Missing, pre \in BOOLEAN :
     \E f1 \in Slot1Fuels, a \in Qty(FuelType1ME, Q1ME, miss),
        b \in Qty(FuelType1AE, Q1AE, miss), c \in Qty(FuelType1Boiler, Q1Boiler, miss),
        f2 \in SlotFuels, d \in Qty(FuelType2Total, Q2Total, miss),
        f3 \in Fuel(FuelType3, SlotFuels, miss), e \in Qty(FuelType3Total, Q3Total, miss) :
       LET r == (FuelType1 :> <<f1>>) @@ (FuelType1ME :> <<a>>) @@ (FuelType1AE :> <<b>>)
                @@ (FuelType1Boiler :> <<c>>) @@ (FuelType2 :> <<f2>>)
                @@ (FuelType2Total :> <<d>>) @@ (FuelType3 :> <<f3>>)
                @@ (FuelType3Total :> <<e>>)
       IN navfleet_data =
            IF pre THEN With(Without(r, miss), <<Boiler, "LNG">>, QPre)
            ELSE Without(r, miss)
  /\ decimal = Idle /\ is_latitude = Idle /\ dms = Idle
  /\ report_to = Idle /\ timezone = Idle /\ utc = Idle
  /\ event_text = Idle /\ event = Idle
  /\ order = Idle /\ transformed = Idle
  /\ output_data = Idle /\ reference_data = Idle

MapFuelTypeConsumption ==
  /\ pc = "fuel"
  /\ navfleet_data' = map_fuel_type_consumption(navfleet_data)
  /\ pc' = "done"
  /\ UNCHANGED <<decimal, is_latitude, dms, report_to, timezone, utc,
                 event_text, event, order, transformed, output_data,
                 reference_data>>

NextFuel == MapFuelTypeConsumption

SpecFuel == InitFuel /\ [][NextFuel]_vars

\* The target fuel of a fuel type of the vocabulary: the two 2020 variants
\* count as heavy fuel oil and marine gas oil.
Vocabulary ==
  {Hfo, Vlsfo2020, Lfo, Mgo, Ulsmgo2020, Mdo, Lng, Lpgp, Lpgb, Methanol, Ethanol}
TargetFuel(f) ==
  IF f \in {Hfo, Vlsfo2020} THEN "HFO"
  ELSE IF f \in {Mgo, Ulsmgo2020} THEN "MGO"
  ELSE IF f = Lfo THEN "LFO" ELSE IF f = Mdo THEN "MDO" ELSE IF f = Lng THEN "LNG"
  ELSE IF f = Lpgp THEN "LPGP" ELSE IF f = Lpgb THEN "LPGB"
  ELSE IF f = Methanol THEN "M" ELSE "E"
Domains == {ME, AE, Boiler}
\* Whether the sum v holds the quantity q (a power of two).
Holds(v, q) == (v \div q) % 2 = 1
HasQty(t, col, i, q) == col \in DOMAIN t /\ t[col][i] = Some(q)

\* C1: for a row whose Fuel Type 1 is a fuel type of the vocabulary, each of
\* the three slot-1 quantities (main engine, auxiliary engine, boiler) is
\* added into the column of that fuel type of its own domain and into no
\* column of that fuel type of another domain.
C1_Slot1FeedsThreeDomains ==
  pc = "done" =>
    \A i \in 1..NRows(navfleet_data) :
      LET t == navfleet_data
          f == Lower(Strip(Val(t[FuelType1][i])))
          lands(q, dom) ==
            \A d \in Domains : Holds(t[<<d, TargetFuel(f)>>][i], q) <=> (d = dom)
      IN f \in Vocabulary =>
           /\ HasQty(t, FuelType1ME, i, Q1ME) => lands(Q1ME, ME)
           /\ HasQty(t, FuelType1AE, i, Q1AE) => lands(Q1AE, AE)
           /\ HasQty(t, FuelType1Boiler, i, Q1Boiler) => lands(Q1Boiler, Boiler)

\* The fixed set of consumption columns: one per domain and target fuel.
TargetFuels == {"HFO", "LFO", "MGO", "MDO", "LNG", "LPGP", "LPGB", "M", "E"}
FixedColumns == { <<d, f>> : d \in Domains, f \in TargetFuels }

\* The table with each 2020 variant in a fuel slot replaced by its base type.
BaseType(v) ==
  IF isna(v) THEN v
  ELSE IF Lower(Strip(Val(v))) = Ulsmgo2020 THEN Some(Mgo)
  ELSE IF Lower(Strip(Val(v))) = Vlsfo2020 THEN Some(Hfo)
  ELSE v
WithBaseTypes(t) ==
  FunOf(LAMBDA c :
          IF c \in {FuelType1, FuelType2, FuelType3}
          THEN SeqOf(LAMBDA i : BaseType(t[c][i]), NRows(t)) ELSE t[c],
        DOMAIN t)

\* C3: a table with ulsmgo2020 (vlsfo2020) in a fuel slot gets the same
\* consumption columns as the same table with mgo (hfo) in that slot.
C3_VariantsAsBaseTypes ==
  [][pc = "fuel" =>
       LET same == map_fuel_type_consumption(WithBaseTypes(navfleet_data))
       IN \A c \in FixedColumns : navfleet_data'[c] = same[c]]_vars

\* ------------------------------------------------- transform_navfleet_data
ReportTo == Col("Report To")
Timezone == Col("Timezone")
NextPort == Col("Next Port")
Date_UTC == Col("Date_UTC")
Time_UTC == Col("Time_UTC")
Voyage_From == Col("Voyage_From")
Voyage_To == Col("Voyage_To")

\* Series.shift(1): each value moves one row down, the first row gets NaN.
ShiftUp(col) == SeqOf(LAMBDA i : IF i = Len(col) THEN NaN ELSE col[i + 1], Len(col))
Shift(col) == SeqOf(LAMBDA i : IF i = 1 THEN NaN ELSE col[i - 1], Len(col))

\* Lines 230-257.  Of the columns of the new table those are modelled that a
\* later step reads or that are not a cell-by-cell copy or conversion of one
\* input column: the UTC date and time and the two voyage columns.
BuildTransformed(t) ==
  (Date_UTC :> SeqOf(LAMBDA i : adjust_to_utc(t[ReportTo][i], t[Timezone][i])[2], NRows(t)))
  @@ (Time_UTC :> SeqOf(LAMBDA i : adjust_to_utc(t[ReportTo][i], t[Timezone][i])[1], NRows(t)))
  @@ (Voyage_From :> Shift(t[NextPort]))
  @@ (Voyage_To :> t[NextPort])

\* Lines 262-275: the columns of the mapped table whose name starts with one
\* of the three prefixes are copied to the new table.
startswith(c, prefix) == c[1] = prefix
AddConsumption(tr, nav) ==
  LET copied == { c \in DOMAIN nav : startswith(c, ME) \/ startswith(c, AE)
                                       \/ startswith(c, Boiler) }
  IN FunOf(LAMBDA c : IF c \in copied THEN nav[c] ELSE tr[c], (DOMAIN tr) \cup copied)

\* str(date) and str(time); str(None) is the text None.
NoneText == <<"N","o","n","e">>
DateText(d) ==
  IF isna(d) THEN NoneText
  ELSE Digits(Val(d).year, 4) \o <<"-">> \o Digits(Val(d).month, 2)
         \o <<"-">> \o Digits(Val(d).day, 2)
TimeText(tm) ==
  IF isna(tm) THEN NoneText
  ELSE Digits(Val(tm).hour, 2) \o <<":">> \o Digits(Val(tm).minute, 2)
         \o <<":","0","0">>
\* pd.to_datetime(text, errors='coerce') of a text  date time : the minutes
\* of the timestamp, NaT for a text that is no date and time.
to_datetime_coerce(text) ==
  LET halves == Split(text, " ")
      dp == Split(halves[1], "-")
      tp == Split(halves[2], ":")
  IN IF /\ Len(halves) = 2 /\ Len(dp) = 3 /\ Len(tp) = 3
        /\ \A x \in {dp[1], dp[2], dp[3], tp[1], tp[2], tp[3]} : IsNumber(x)
     THEN LET dt == MakeDatetime(ToInt(dp[1]), ToInt(dp[2]), ToInt(dp[3]),
                                 ToInt(tp[1]), ToInt(tp[2]))
          IN IF isna(dt) THEN NaN ELSE Some(Minutes(Val(dt)))
     ELSE NaN
\* Lines 278-281.
DateTimeUTC(tr) ==
  SeqOf(LAMBDA i : to_datetime_coerce(DateText(tr[Date_UTC][i]) \o <<" ">>
                                        \o TimeText(tr[Time_UTC][i])),
        Len(tr[Date_UTC]))

\* sort_values(by='DateTime_UTC'): the orders of the rows in which the keys
\* ascend and the NaT keys come last.  The default sort is not stable: rows
\* with equal keys come in any order.
RowOrders(n) ==
  { p \in [1..n -> 1..n] : \A a, b \in 1..n : p[a] = p[b] => a = b }
InputOrder(p, key) == \A a \in 1..Len(key) : p[a] = a
Ascending(p, key) ==
  \A a, b \in 1..Len(key) :
    a < b => /\ isna(key[p[a]]) => isna(key[p[b]])
             /\ (~isna(key[p[a]]) /\ ~isna(key[p[b]])) => Val(key[p[a]]) <= Val(key[p[b]])
SortOrders(key) == { p \in RowOrders(Len(key)) : Ascending(p, key) }
\* The rows of a table in the order p, numbered anew (reset_index(drop=True)).
Reorder(tr, p) == FunOf(LAMBDA c : SeqOf(LAMBDA k : tr[c][p[k]], Len(p)), DOMAIN tr)

\* The tables drawn: 1..MaxRows rows; each row has one of four pairs of
\* timestamp and descriptor (three that resolve to different UTC times, in an
\* order other than that of the local times, and one that does not resolve),
\* and one of two fuel entries (none, or slot 1 and slot 2 filled); the next
\* port differs from each row to the next; the table may already hold a
\* consumption column.
PortA == <<"A","l","p","h","a">>
PortB == <<"B","e","t","a">>
PortC == <<"G","a","m","m","a">>
Ports == <<PortA, PortB, PortC>>
TimeProfiles ==
  { <<Some(SlashText(2, 1, 2024, 2, 0)), Some(TvaGmt \o <<"+","3">>)>>,
    <<Some(IsoText(2024, 1, 1, 23, 30)), Some(Utc)>>,
    <<Some(SlashText(1, 2, 2024, 0, 0)), Some(TvaGmt \o <<"-","5">>)>>,
    <<Some(<<"n","o","o","n">>), Some(Utc)>> }
FuelProfiles ==
  { <<NaN, NaN, NaN, NaN, NaN, NaN, NaN, NaN>>,
    <<Some(Hfo), Some(Q1ME), Some(Q1AE), NaN, Some(Ulsmgo2020), Some(Q2Total), NaN, NaN>> }
InputRows == { <<tp, fp>> : tp \in TimeProfiles, fp \in FuelProfiles }
TableOf(rows) ==
  LET n == Len(rows)
      fuel(j) == SeqOf(LAMBDA i : rows[i][2][j], n)
  IN (ReportTo :> SeqOf(LAMBDA i : rows[i][1][1], n))
     @@ (Timezone :> SeqOf(LAMBDA i : rows[i][1][2], n))
     @@ (NextPort :> SeqOf(LAMBDA i : Some(Ports[((i - 1) % 3) + 1]), n))
     @@ (FuelType1 :> fuel(1)) @@ (FuelType1ME :> fuel(2)) @@ (FuelType1AE :> fuel(3))
     @@ (FuelType1Boiler :> fuel(4)) @@ (FuelType2 :> fuel(5))
     @@ (FuelType2Total :> fuel(6)) @@ (FuelType3 :> fuel(7))
     @@ (FuelType3Total :> fuel(8))

InitTransform ==
  /\ pc = "transform"
  /\ \E n \in 1..MaxRows, pre \in BOOLEAN :
     \E rows \in [1..n -> InputRows] :
       navfleet_data = IF pre THEN With(TableOf(rows), <<ME, "HFO">>, QPre)
                       ELSE TableOf(rows)
  /\ order = Idle /\ transformed = Idle
  /\ decimal = Idle /\ is_latitude = Idle /\ dms = Idle
  /\ report_to = Idle /\ timezone = Idle /\ utc = Idle
  /\ event_text = Idle /\ event = Idle
  /\ output_data = Idle /\ reference_data = Idle

\* transform_navfleet_data: the new table is built, the fuel mapping changes
\* the input table in place, its consumption columns are copied, and the rows
\* are sorted by the combined key, which is then dropped.  order is the index
\* of the sorted table before it is reset: the input row of each output row.
TransformNavfleetData ==
  /\ pc = "transform"
  /\ \E built \in {BuildTransformed(navfleet_data)},
        nav \in {map_fuel_type_consumption(navfleet_data)} :
       \E withFuel \in {AddConsumption(built, nav)} :
         \E key \in {DateTimeUTC(withFuel)} :
           \E p \in SortOrders(key) :
             /\ navfleet_data' = nav
             /\ order' = p
             /\ transformed' = Reorder(withFuel, p)
  /\ pc' = "done"
  /\ UNCHANGED <<decimal, is_latitude, dms, report_to, timezone, utc,
                 event_text, event, output_data, reference_data>>

NextTransform == TransformNavfleetData

SpecTransform == InitTransform /\ [][NextTransform]_vars

Resolved(tr, k) == ~isna(tr[Date_UTC][k]) /\ ~isna(tr[Time_UTC][k])
UtcMinutes(tr, k) == MinutesOf(Val(tr[Time_UTC][k]), Val(tr[Date_UTC][k]))

C9_VoyagePairFromInputOrder ==
  pc = "done" =>
    \A k \in 1..NRows(navfleet_data) :
      LET i == order[k]
      IN /\ transformed[Voyage_To][k] = navfleet_data[NextPort][i]
         /\ transformed[Voyage_From][k] =
              (IF i = 1 THEN NaN ELSE navfleet_data[NextPort][i - 1])

\* The sort moved the second input row to the top: its Voyage_From is the
\* first input row's port, not the port of the row now before it (none).
C9_Witness ==
  /\ pc = "done" /\ NRows(navfleet_data) = 2
  /\ order = <<2, 1>>
  /\ navfleet_data[NextPort] = <<Some(PortA), Some(PortB)>>
  /\ transformed[Voyage_From] = <<Some(PortA), NaN>>
  /\ transformed[Voyage_To] = <<Some(PortB), Some(PortA)>>

\* The target fuels of the fuel slots of row i that hold a quantity and a
\* fuel type of the vocabulary: the fuels of the columns the row's slots
\* contribute to.
Declared(t, i) ==
  LET slots == { s \in { <<FuelType1, FuelType1ME>>, <<FuelType1, FuelType1AE>>,
                         <<FuelType1, FuelType1Boiler>>, <<FuelType2, FuelType2Total>>,
                         <<FuelType3, FuelType3Total>> } :
                   /\ s[1] \in DOMAIN t /\ s[2] \in DOMAIN t
                   /\ ~isna(t[s[1]][i]) /\ ~isna(t[s[2]][i]) }
      types == { Lower(Strip(Val(t[s[1]][i]))) : s \in slots }
  IN { TargetFuel(f) : f \in types \cap Vocabulary }

NameWoDiacritics == Col("NameWoDiacritics")
Country == Col("Country")
Location == Col("Location")
PortCode == Col("PortCode")

MaxVoyages == 2

\* Series.str.lower().str.strip(): a NaN stays NaN.
str_lower_strip(col) ==
  SeqOf(LAMBDA i : IF isna(col[i]) THEN NaN ELSE Some(Strip(Lower(Val(col[i])))), Len(col))

\* Lines 297-298: the names normalised in place, PortCode the first five
\* characters of country + location.
Prefix(s, n) == SubSeq(s, 1, IF Len(s) < n THEN Len(s) ELSE n)
WithPortCode(ref) ==
  (NameWoDiacritics :> str_lower_strip(ref[NameWoDiacritics]))
  @@ (PortCode :> SeqOf(LAMBDA j : Some(Prefix(Val(ref[Country][j]) \o Val(ref[Location][j]), 5)),
                        NRows(ref)))
  @@ ref

\* dict(zip(keys, values))[key]: the value of the last row with the key, NaN
\* for a key no row has.
Lookup(ref, reference_key, target_key, key) ==
  LET rows == { j \in 1..NRows(ref) : ref[reference_key][j] = key }
  IN IF rows = {} THEN NaN
     ELSE ref[target_key][CHOOSE j \in rows : \A k \in rows : k <= j]

\* map_values: column.map(reference_map).fillna(column).
map_values(column, reference_df, reference_key, target_key) ==
  SeqOf(LAMBDA i :
          LET mapped == IF isna(column[i]) THEN NaN
                        ELSE Lookup(reference_df, reference_key, target_key, column[i])
          IN IF isna(mapped) THEN column[i] ELSE mapped,
        Len(column))

\* Lines 302-307 for one column: map_values is given the column lower-cased
\* and trimmed.
UpdateColumn(out, column, ref) ==
  IF column \in DOMAIN out
  THEN [out EXCEPT ![column] =
          map_values(str_lower_strip(out[column]), ref, NameWoDiacritics, PortCode)]
  ELSE out

\* Lines 312-313: pd.to_datetime(..., errors='coerce').dt.date of the text
\* year-month-day; NaT for a NaN.
to_date(v) ==
  IF isna(v) THEN NaN
  ELSE LET dp == Split(Val(v), "-")
       IN IF Len(dp) = 3 /\ \A k \in 1..3 : IsNumber(dp[k])
          THEN LET dt == MakeDatetime(ToInt(dp[1]), ToInt(dp[2]), ToInt(dp[3]), 0, 0)
               IN IF isna(dt) THEN NaN ELSE DateOf(Val(dt))
          ELSE NaN
DateOnly(out) ==
  IF Date_UTC \in DOMAIN out
  THEN [out EXCEPT ![Date_UTC] = SeqOf(LAMBDA i : to_date(out[Date_UTC][i]), NRows(out))]
  ELSE out

\* The tables drawn: output rows with a Voyage_From and a Voyage_To that are a
\* name in capitals with a blank after it, a name in another case, a third
\* name, or NaN; a table has all three columns, with a date or without one in
\* Date_UTC, or only Voyage_From.  The reference tables hold one or two of
\* three ports, one of them twice under names that differ in case and blanks.
Rotterdam == <<"R","o","t","t","e","r","d","a","m">>
Hamburg == <<"H","a","m","b","u","r","g">>
Oslo == <<"o","s","l","o">>
PortCells == { Some(Rotterdam \o <<" ">>), Some(Hamburg), Some(Oslo), NaN }
RefRow(name, country, location) == <<Some(name), Some(country), Some(location)>>
RefRotterdam == RefRow(Rotterdam, <<"N","L">>, <<"R","T","M">>)
RefRotterdamTwice == RefRow(<<" ">> \o Upper(Rotterdam), <<"B","E">>, <<"A","N","R">>)
RefOslo == RefRow(<<"O","s","l","o">>, <<"N","O">>, <<"O","S","L","O">>)
RefHamburg == RefRow(<<"h","a","m","b","u","r","g">>, <<"D","E">>, <<"H","A","M">>)
ReferenceTables ==
  { <<RefRotterdam>>, <<RefOslo>>, <<RefRotterdam, RefRotterdamTwice>>,
    <<RefHamburg, RefOslo>>, <<RefRotterdamTwice, RefRotterdam>> }
ReferenceOf(rows) ==
  (NameWoDiacritics :> SeqOf(LAMBDA j : rows[j][1], Len(rows)))
  @@ (Country :> SeqOf(LAMBDA j : rows[j][2], Len(rows)))
  @@ (Location :> SeqOf(LAMBDA j : rows[j][3], Len(rows)))
DateCells == { Some(<<"2","0","2","4","-","0","1","-","0","2">>), NaN }
OutputOf(rows, date, full) ==
  LET n == Len(rows)
      from == Voyage_From :> SeqOf(LAMBDA i : rows[i][1], n)
  IN IF full
     THEN from @@ (Voyage_To :> SeqOf(LAMBDA i : rows[i][2], n))
               @@ (Date_UTC :> SeqOf(LAMBDA i : date, n))
     ELSE from

InitVoyage ==
  /\ pc = "update"
  /\ \E n \in 1..MaxVoyages, date \in DateCells, full \in BOOLEAN :
     \E rows \in [1..n -> PortCells \X PortCells] :
       output_data = OutputOf(rows, date, full)
  /\ \E rows \in ReferenceTables : reference_data = ReferenceOf(rows)
  /\ decimal = Idle /\ is_latitude = Idle /\ dms = Idle
  /\ report_to = Idle /\ timezone = Idle /\ utc = Idle
  /\ event_text = Idle /\ event = Idle
  /\ navfleet_data = Idle /\ order = Idle /\ transformed = Idle

\* A column that holds no text at all may be a column of floats (read_csv
\* makes it one), and .str raises on a column of floats.
MayBeFloat(out) ==
  { c \in {Voyage_From, Voyage_To} \cap DOMAIN out : \A i \in 1..NRows(out) : isna(out[c][i]) }

\* update_voyage_columns returns: both columns mapped, Date_UTC date-only.
UpdateVoyageColumns ==
  /\ pc = "update"
  /\ \E ref \in {WithPortCode(reference_data)} :
       /\ reference_data' = ref
       /\ output_data' = DateOnly(UpdateColumn(UpdateColumn(output_data, Voyage_From, ref),
                                               Voyage_To, ref))
  /\ pc' = "done"
  /\ UNCHANGED <<decimal, is_latitude, dms, report_to, timezone, utc,
                 event_text, event, navfleet_data, order, transformed>>

\* update_voyage_columns raises in line 303 on a column of floats, after the
\* reference table and the columns before it were changed in place.
UpdateVoyageColumnsRaises ==
  /\ pc = "update"
  /\ \E ref \in {WithPortCode(reference_data)}, column \in MayBeFloat(output_data) :
       /\ reference_data' = ref
       /\ output_data' = IF column = Voyage_To
                         THEN UpdateColumn(output_data, Voyage_From, ref)
                         ELSE output_data
  /\ pc' = "raised"
  /\ UNCHANGED <<decimal, is_latitude, dms, report_to, timezone, utc,
                 event_text, event, navfleet_data, order, transformed>>

NextVoyage == UpdateVoyageColumns \/ UpdateVoyageColumnsRaises
SpecVoyage == InitVoyage /\ [][NextVoyage]_vars

\* C2: a value of Voyage_From or Voyage_To that, trimmed and lower-cased, is
\* the trimmed lower-cased name of a reference row becomes the PortCode of
\* such a row; any other value is after the call exactly what it was before.
C2_MatchedOrUnchanged ==
  [][pc = "update" /\ pc' = "done" =>
       \A c \in {Voyage_From, Voyage_To} \cap DOMAIN output_data :
         \A i \in 1..NRows(output_data) :
           LET v == output_data[c][i]
               rows == IF isna(v) THEN {}
                       ELSE { j \in 1..NRows(reference_data) :
                                Strip(Lower(Val(reference_data[NameWoDiacritics][j])))
                                  = Strip(Lower(Val(v))) }
           IN IF rows # {}
              THEN \E j \in rows :
                     output_data'[c][i] =
                       Some(Prefix(Val(reference_data[Country][j])
                                     \o Val(reference_data[Location][j]), 5))
              ELSE output_data'[c][i] = v]_vars

====
